---------------------------- MODULE Spec2Model ----------------------------
(***************************************************************************)
(* A model of swftp: the FTP and SFTP front ends of a gateway to an        *)
(* object store.                                                           *)
(*                                                                         *)
(*   Spec      the per-user session registry of the two front ends        *)
(*             (src/swftp/ftp/server.py SwftpFTPProtocol,                  *)
(*              src/swftp/sftp/server.py SwiftSSHServerTransport)          *)
(*   SpecXfer  one download (SwiftReadFile) and one upload (SwiftWriteFile)*)
(*             of the FTP front end                                        *)
(*   SpecCmd   the commands of a session and the way each front end maps   *)
(*             the adapter's outcome to its own result                     *)
(*   SpecFs    the commands of a session run against an object store: the  *)
(*             filesystem adapter (swftp.swiftfilesystem) behind the two   *)
(*             front ends                                                  *)
(*   SpecFlag  SpecFs, each command run a second time on the same store    *)
(*             by a shell whose allow_no_existing_path is the other way    *)
(*   SpecLine  the FTP command lines the protocol class handles itself     *)
(*             (LIST arguments, the SYST reply)                            *)
(*   SpecBench the load generator src/bench.py: its connection pool and    *)
(*             its upload worker                                           *)
(***************************************************************************)
EXTENDS Integers, Sequences, FiniteSets, Bags, TLC

(***************************************************************************)
(* Bounds of the model.                                                    *)
(***************************************************************************)
NConn == 3        \* connections alive at once, both front ends together
MaxCap == 2       \* largest configured sessions_per_user explored
MaxLeak == 1      \* counted sessions that no live connection holds any more
MaxChunks == 2    \* chunks the backend delivers in one download
MaxCmds == 2      \* commands of one session
MaxObjs == 2      \* objects in the store

\* SwftpFTPProtocol.maxConnectionsPerUser, the class default
DefaultMaxConnectionsPerUser == 10

None == "none"
Users == {"u1", "u2"}
Protos == {"ftp", "sftp"}

VARIABLES
    connCountMap,           \* [proto -> the class attribute _connCountMap]
    maxConnectionsPerUser,  \* [proto -> the class attribute maxConnectionsPerUser]
    conns,                  \* the bag of live protocol objects with their transports
    freed,                  \* history: <<proto, user>> of a slot freed at the cap
    rd,                     \* a SwiftReadFile, its consumer and the result of send
    wr,                     \* a SwiftWriteFile and the result of close
    cmdlog,                 \* the commands of a session, each with its result
    swift,                  \* the account in the object store: containers, objects
    allow_no_existing_path, \* SwiftFTPShell.allow_no_existing_path
    shellcmd,               \* the command the shell is answering, with its result
    twin,                   \* the same command as answered with the flag the other way
    bench,                  \* bench.py: the FTPPool, its workers and the Stats
    dtp,                    \* the data connection of an FTP session and its socket
    trace,                  \* what the handler that ran last did, in order
    sessions                \* shells and avatars created and not logged out yet

regVars == <<connCountMap, maxConnectionsPerUser, conns, freed>>
xferVars == <<rd, wr>>
fsVars == <<swift, allow_no_existing_path, shellcmd, twin>>
lifeVars == <<trace, sessions>>
vars == <<connCountMap, maxConnectionsPerUser, conns, freed, rd, wr, cmdlog,
          swift, allow_no_existing_path, shellcmd, twin, bench, dtp, trace,
          sessions>>

(***************************************************************************)
(* collections.defaultdict(int): a map whose absent keys read as 0.        *)
(***************************************************************************)
MapGet(m, u) == IF u \in DOMAIN m THEN m[u] ELSE 0

MapSet(m, u, v) == [x \in (DOMAIN m) \cup {u} |-> IF x = u THEN v ELSE m[x]]

MapDel(m, u) == [x \in (DOMAIN m) \ {u} |-> m[x]]

EmptyMap == [x \in {} |-> 0]

IncrementToOne(m, u) == MapSet(m, u, 1)

\* self._connCountMap[username] += 1
Increment(m, u) == MapSet(m, u, MapGet(m, u) + 1)

DecrementKeepZero(m, u) == MapSet(m, u, MapGet(m, u) - 1)

\* self._connCountMap[username] -= 1; if it is 0: del self._connCountMap[username]
Decrement(m, u) ==
    LET m1 == MapSet(m, u, MapGet(m, u) - 1)
    IN  IF m1[u] = 0 THEN MapDel(m1, u) ELSE m1

TooManyIgnoringZero(max, count) == count > max

TooManyOffByOne(max, count) == max # 0 /\ count > max + 1

\* self.maxConnectionsPerUser != 0 and
\*     self._connCountMap[username] > self.maxConnectionsPerUser
TooMany(max, count) == max # 0 /\ count > max

RegistryShared(p) == "ftp"

\* The map a front end counts in: SwftpFTPProtocol._connCountMap for FTP,
\* SwiftSSHServerTransport._connCountMap for SFTP, two class attributes.
RegistryOf(p) == p

(***************************************************************************)
(* A connection: the protocol object (self.shell / self.avatar, the login  *)
(* in flight) and the state of its transport.  Connections carry no        *)
(* identity beyond their state, so the live ones form a bag.               *)
(*   st: "open"     connected                                              *)
(*       "rejected" sent the too-many-connections response, transport      *)
(*                  closing, connectionLost not yet delivered              *)
(*       "lost"     connectionLost delivered while a login was in flight   *)
(***************************************************************************)
ConnStates == [proto : Protos, st : {"open", "rejected", "lost"},
               shell : Users \cup {None}, pending : Users \cup {None}]

NotFreed == <<None, None>>

NewConn(p) == [proto |-> p, st |-> "open", shell |-> None, pending |-> None]

Replace(b, r, r2) == (b (-) SetToBag({r})) (+) SetToBag({r2})

Remove(b, r) == b (-) SetToBag({r})

RECURSIVE CountIn(_, _)
CountIn(b, S) ==
    IF S = {} THEN 0
    ELSE LET r == CHOOSE x \in S : TRUE
         IN  CopiesIn(r, b) + CountIn(b, S \ {r})

\* The sessions a user holds on a front end: open, authenticated, not rejected.
Active(p, u) ==
    CountIn(conns, {r \in BagToSet(conns) :
                       r.proto = p /\ r.st = "open" /\ r.shell = u})

\* The connections whose loss will decrement the entry of u.
Authenticated(p, u) ==
    CountIn(conns, {r \in BagToSet(conns) :
                       r.proto = p /\ r.st \in {"open", "rejected"} /\ r.shell = u})

\* Counted sessions that the loss of no live connection will take back.
Leaked(p, u) == MapGet(connCountMap[RegistryOf(p)], u) - Authenticated(p, u)

RECURSIVE SumLeaked(_)
SumLeaked(S) ==
    IF S = {} THEN 0
    ELSE LET x == CHOOSE y \in S : TRUE
         IN  Leaked(x[1], x[2]) + SumLeaked(S \ {x})

\* No connection yet; sessions_per_user is read from the configuration.
RegInit ==
    /\ connCountMap = [p \in Protos |-> EmptyMap]
    /\ maxConnectionsPerUser \in {[p \in Protos |-> n] : n \in 0 .. MaxCap}
    /\ conns = EmptyBag
    /\ freed = NotFreed

\* The registry as the classes define it, before any connection.
RegIdle ==
    /\ connCountMap = [p \in Protos |-> EmptyMap]
    /\ maxConnectionsPerUser = [p \in Protos |-> DefaultMaxConnectionsPerUser]
    /\ conns = EmptyBag
    /\ freed = NotFreed

\* connectionMade
connectionMade(p) ==
    /\ BagCardinality(conns) < NConn
    /\ conns' = conns (+) SetToBag({NewConn(p)})
    /\ UNCHANGED <<connCountMap, maxConnectionsPerUser, freed>>

(***************************************************************************)
(* The client sends its credentials (FTP: USER then PASS, also on a        *)
(* connection that is already logged in; SFTP: USERAUTH_REQUEST, which the *)
(* transport serves only until a login succeeded) and the login against    *)
(* the backend starts.  ftp_PASS and ssh_USERAUTH_REQUEST return the       *)
(* deferred the callbacks below are attached to.                           *)
(***************************************************************************)
ftp_PASS(r, u) ==
    /\ BagIn(r, conns)
    /\ r.proto = "ftp"
    /\ r.st = "open"
    /\ r.pending = None
    /\ conns' = Replace(conns, r, [r EXCEPT !.pending = u])
    /\ UNCHANGED <<connCountMap, maxConnectionsPerUser, freed>>

ssh_USERAUTH_REQUEST(r, u) ==
    /\ BagIn(r, conns)
    /\ r.proto = "sftp"
    /\ r.st = "open"
    /\ r.pending = None
    /\ r.shell = None
    /\ conns' = Replace(conns, r, [r EXCEPT !.pending = u])
    /\ UNCHANGED <<connCountMap, maxConnectionsPerUser, freed>>

(***************************************************************************)
(* The login succeeded: the avatar is stored on the protocol object, then  *)
(* the session is counted and, above the cap, the connection is told so    *)
(* and its transport closed.  The callback also runs when connectionLost   *)
(* was delivered while the login was in flight; nothing refers to that     *)
(* protocol object afterwards.                                             *)
(***************************************************************************)
AfterLogin(r) ==
    LET p == r.proto
        u == r.pending
        m == Increment(connCountMap[RegistryOf(p)], u)
    IN  [proto |-> p,
         st |-> IF TooMany(maxConnectionsPerUser[p], m[u])
                THEN "rejected" ELSE "open",
         shell |-> u,
         pending |-> None]

Counted(r) ==
    LET p == r.proto
        u == r.pending
    IN  /\ BagIn(r, conns)
        /\ r.st \in {"open", "lost"}
        /\ r.pending # None
        /\ (r.st = "lost" \/ r.shell # None)
              => SumLeaked(Protos \X Users) < MaxLeak
        /\ connCountMap' = [connCountMap EXCEPT ![RegistryOf(p)] =
                                 Increment(connCountMap[RegistryOf(p)], u)]
        /\ conns' = IF r.st = "lost" THEN Remove(conns, r)
                    ELSE Replace(conns, r, AfterLogin(r))
        /\ freed' = IF freed = <<p, u>> THEN NotFreed ELSE freed
        /\ UNCHANGED maxConnectionsPerUser

\* SwftpFTPProtocol.ftp_PASS.pass_cb
pass_cb(r) == r.proto = "ftp" /\ Counted(r)

\* SwiftSSHServerTransport.on_auth, self.avatar set
on_auth(r) == r.proto = "sftp" /\ Counted(r)

LoginFailedCounts(r) ==
    /\ BagIn(r, conns)
    /\ r.st \in {"open", "lost"}
    /\ r.pending # None
    /\ conns' = IF r.st = "lost" THEN Remove(conns, r)
                ELSE Replace(conns, r, [r EXCEPT !.pending = None])
    /\ connCountMap' = [connCountMap EXCEPT ![RegistryOf(r.proto)] =
                             Increment(connCountMap[RegistryOf(r.proto)],
                                       r.pending)]
    /\ UNCHANGED <<maxConnectionsPerUser, freed>>

(***************************************************************************)
(* The login failed.  FTP: the errback of the login raises and pass_cb is  *)
(* skipped.  SFTP: on_auth runs, finds no avatar and returns.              *)
(***************************************************************************)
LoginFailed(r) ==
    /\ BagIn(r, conns)
    /\ r.st \in {"open", "lost"}
    /\ r.pending # None
    /\ conns' = IF r.st = "lost" THEN Remove(conns, r)
                ELSE Replace(conns, r, [r EXCEPT !.pending = None])
    /\ UNCHANGED <<connCountMap, maxConnectionsPerUser, freed>>

(***************************************************************************)
(* connectionLost: the client went away, the session timed out, or the     *)
(* transport closed after a rejection.  A login still in flight keeps the  *)
(* protocol object alive; FTP's base class clears self.shell.              *)
(***************************************************************************)
connectionLost(r) ==
    LET p == r.proto
        u == r.shell
    IN  /\ BagIn(r, conns)
        /\ r.st \in {"open", "rejected"}
        /\ connCountMap' =
              IF u # None
              THEN [connCountMap EXCEPT ![RegistryOf(p)] =
                                 Decrement(connCountMap[RegistryOf(p)], u)]
              ELSE connCountMap
        /\ conns' = IF r.pending # None
                    THEN Replace(conns, r, [r EXCEPT !.st = "lost", !.shell = None])
                    ELSE Remove(conns, r)
        /\ freed' =
              IF /\ r.st = "open"
                 /\ u # None
                 /\ maxConnectionsPerUser[p] > 0
                 /\ Active(p, u) = maxConnectionsPerUser[p]
              THEN <<p, u>>
              ELSE freed
        /\ UNCHANGED maxConnectionsPerUser

RegNext ==
    \/ \E p \in Protos : connectionMade(p)
    \/ \E r \in BagToSet(conns), u \in Users : ftp_PASS(r, u)
    \/ \E r \in BagToSet(conns), u \in Users : ssh_USERAUTH_REQUEST(r, u)
    \/ \E r \in BagToSet(conns) : pass_cb(r)
    \/ \E r \in BagToSet(conns) : on_auth(r)
    \/ \E r \in BagToSet(conns) : LoginFailed(r)
    \/ \E r \in BagToSet(conns) : connectionLost(r)

Next == RegNext /\ UNCHANGED <<rd, wr, cmdlog, fsVars, bench, dtp, lifeVars>>

(***************************************************************************)
(* Deferreds: not made yet, pending, fired with success, fired with a      *)
(* failure.                                                                *)
(***************************************************************************)
NotMade == [s |-> "none", why |-> None]
Pending == [s |-> "pending", why |-> None]
Ok == [s |-> "ok", why |-> None]
Fail(e) == [s |-> "fail", why |-> e]

\* The reasons the backend gives for the end of a response body.
BodyEnds == {"ResponseDone", "PotentialDataLoss", "ResponseFailed"}
\* The failures of a backend request before any body.
StartErrors == {"NotFound", "UnAuthorized"}
\* The failures of a backend upload.
UploadErrors == {"ResponseFailed"}
Chunks == {"a", "b"}

(***************************************************************************)
(* SwiftReadFile: RETR.                                                    *)
(*   phase "new"         constructed, self.finished = defer.Deferred()     *)
(*         "requested"   send called, startFileDownload under way          *)
(*         "delivering"  response received, body being delivered to self   *)
(*         "chained"     the callback of send has run                      *)
(*         "startfailed" startFileDownload failed                          *)
(***************************************************************************)
XferInit ==
    /\ rd = [phase |-> "new", finished |-> Pending, ended |-> None,
             starterr |-> None, received |-> <<>>, written |-> <<>>,
             registered |-> FALSE,
             waitsOn |-> None, result |-> NotMade]
    /\ wr = [finished |-> NotMade, started |-> NotMade, eof |-> FALSE,
             closed |-> FALSE, returned |-> None, result |-> NotMade]

\* send: self.consumer = consumer; d = startFileDownload(...); d.addCallback(cb_send)
send ==
    /\ rd.phase = "new"
    /\ rd' = [rd EXCEPT !.phase = "requested", !.registered = TRUE,
                        !.result = Pending]
    /\ UNCHANGED wr

\* startFileDownload fails: the callback is skipped, the failure is the result
startFileDownloadFailed(e) ==
    /\ rd.phase = "requested"
    /\ rd' = [rd EXCEPT !.phase = "startfailed", !.starterr = e,
                        !.result = Fail(e)]
    /\ UNCHANGED wr

\* the backend answered; the body is delivered to the SwiftReadFile
responseReceived ==
    /\ rd.phase = "requested"
    /\ rd' = [rd EXCEPT !.phase = "delivering"]
    /\ UNCHANGED wr

cb_send_returnsNone == "None"

\* cb_send: return self.finished
cb_send == "finished"

\* The deferred of startFileDownload fires and cb_send runs: a returned
\* deferred is waited on, any other value is the result.
sendCallback ==
    /\ rd.phase = "delivering"
    /\ rd' = [rd EXCEPT !.phase = "chained",
                        !.waitsOn = IF cb_send = "finished" THEN "finished" ELSE None,
                        !.result = IF cb_send = "finished" THEN rd.finished ELSE Ok]
    /\ UNCHANGED wr

consumer_write_ahead(written, data) == <<data>> \o written

\* self.consumer.write(data): the wire gets the data after what it has
consumer_write(written, data) == Append(written, data)

\* dataReceived: the backend delivers a chunk of the body, in rd.received;
\* self.consumer.write(data)
dataReceived(data) ==
    /\ rd.phase \in {"delivering", "chained"}
    /\ rd.ended = None
    /\ Len(rd.received) < MaxChunks
    /\ rd' = [rd EXCEPT !.received = Append(rd.received, data),
                        !.written = consumer_write(rd.written, data)]
    /\ UNCHANGED wr

\* if reason.check(ResponseDone) or reason.check(PotentialDataLoss):
\*     self.finished.callback(None)
\* else: self.finished.errback(reason)
Completion(reason) ==
    IF reason = "ResponseDone" \/ reason = "PotentialDataLoss"
    THEN Ok ELSE Fail(reason)

\* SwiftReadFile.connectionLost: the body ended
readConnectionLost(reason) ==
    /\ rd.phase \in {"delivering", "chained"}
    /\ rd.ended = None
    /\ rd' = [rd EXCEPT !.ended = reason,
                        !.finished = Completion(reason),
                        !.result = IF rd.waitsOn = "finished"
                                   THEN Completion(reason) ELSE rd.result,
                        !.registered = FALSE]
    /\ UNCHANGED wr

(***************************************************************************)
(* SwiftWriteFile: STOR.                                                   *)
(***************************************************************************)
\* receive: d, writer = startFileUpload(...); self.finished = d; return writer.started
receive ==
    /\ wr.finished = NotMade
    /\ wr' = [wr EXCEPT !.finished = Pending, !.started = Pending]
    /\ UNCHANGED rd

\* writer.started fires: the backend PUT is established, or is not
uploadStarted ==
    /\ wr.started = Pending
    /\ wr.finished = Pending
    /\ wr' = [wr EXCEPT !.started = Ok]
    /\ UNCHANGED rd

\* the wire's data connection ended: the protocol engine then closes the file
wireDone ==
    /\ wr.started = Ok
    /\ ~wr.eof
    /\ wr' = [wr EXCEPT !.eof = TRUE]
    /\ UNCHANGED rd

close_returnsNone == "None"

\* close: return self.finished
close_returns == "finished"

close ==
    /\ wr.started = Ok
    /\ wr.eof
    /\ ~wr.closed
    /\ wr' = [wr EXCEPT !.closed = TRUE,
                        !.returned = close_returns,
                        !.result = IF close_returns = "finished"
                                   THEN wr.finished ELSE Ok]
    /\ UNCHANGED rd

\* the completion signal of startFileUpload fires
uploadEnded(outcome) ==
    /\ wr.finished = Pending
    /\ outcome = Ok => (wr.started = Ok /\ wr.eof)
    /\ wr' = [wr EXCEPT !.finished = outcome,
                        !.started = IF wr.started = Pending /\ outcome # Ok
                                    THEN outcome ELSE wr.started,
                        !.result = IF wr.returned = "finished"
                                   THEN outcome ELSE wr.result]
    /\ UNCHANGED rd

XferNext ==
    \/ send
    \/ \E e \in StartErrors : startFileDownloadFailed(e)
    \/ responseReceived
    \/ sendCallback
    \/ \E data \in Chunks : dataReceived(data)
    \/ \E reason \in BodyEnds : readConnectionLost(reason)
    \/ receive
    \/ uploadStarted
    \/ wireDone
    \/ close
    \/ \E o \in {Ok} \cup {Fail(e) : e \in UploadErrors} : uploadEnded(o)

(***************************************************************************)
(* The commands of a session.  The adapter (swftp.swiftfilesystem) answers *)
(* each call with success or with one of its failures; the front end maps  *)
(* that to the result it hands to the protocol engine.                     *)
(***************************************************************************)
AdapterErrors == {"NotFound", "Conflict", "UnAuthorized", "NotImplementedError",
                  "ResponseFailed"}
AdapterOutcomes == {Ok} \cup {Fail(e) : e \in AdapterErrors}

\* d.addErrback(eb): eb sees a failure; a success passes by
AddErrback(d, eb(_)) == IF d.s = "fail" THEN eb(d.why) ELSE d

ftp_not_found_eb_raises(e) == Fail(e)

\* failure.trap(...): a failure of another kind is raised again
\* FTP removeDirectory: not_found_eb: failure.trap(NotFound), returns None
ftp_not_found_eb(e) == IF e = "NotFound" THEN Ok ELSE Fail(e)

ftp_conflict_eb_returns(e) == IF e = "Conflict" THEN Ok ELSE Fail(e)

\* conflict_eb: failure.trap(Conflict); raise CmdNotImplementedForArgError
ftp_conflict_eb(e) ==
    IF e = "Conflict" THEN Fail("CmdNotImplementedForArgError") ELSE Fail(e)

\* SwiftFTPShell.removeDirectory
ftp_removeDirectory(outcome) ==
    AddErrback(AddErrback(outcome, ftp_not_found_eb), ftp_conflict_eb)

sftp_rmdir_errback_returns(e) ==
    IF e \in {"NotFound", "Conflict"} THEN Ok ELSE Fail(e)

\* SFTP removeDirectory: errback: failure.trap(NotFound, Conflict);
\* NotFound: return; Conflict: raise SFTPError(FX_FAILURE, ...)
sftp_rmdir_errback(e) ==
    IF e \in {"NotFound", "Conflict"}
    THEN IF e = "NotFound" THEN Ok
         ELSE Fail("SFTPError_FX_FAILURE")
    ELSE Fail(e)

\* SFTPServerForSwiftConchUser.removeDirectory
sftp_removeDirectory(outcome) == AddErrback(outcome, sftp_rmdir_errback)

CmdInit == cmdlog = <<>>

Logged(fe, op, outcome, result) ==
    /\ Len(cmdlog) < MaxCmds
    /\ cmdlog' = Append(cmdlog, [fe |-> fe, op |-> op, adapter |-> outcome,
                                 result |-> result])

FtpRemoveDirectory(outcome) ==
    Logged("ftp", "removeDirectory", outcome, ftp_removeDirectory(outcome))

SftpRemoveDirectory(outcome) ==
    Logged("sftp", "removeDirectory", outcome, sftp_removeDirectory(outcome))

CmdNext ==
    \/ \E o \in AdapterOutcomes : FtpRemoveDirectory(o)
    \/ \E o \in AdapterOutcomes : SftpRemoveDirectory(o)

(***************************************************************************)
(* The object store and the filesystem adapter.  A string is a sequence of *)
(* characters; "/" separates the segments of a path.  The adapter          *)
(* (swftp.swiftfilesystem) is taken from its description: paths, listing   *)
(* aggregation, and the removal and rename policies.                       *)
(***************************************************************************)
Slash == "/"

ContainerNames == {<<"t">>, <<"u">>}
SegNames == {<<"a">>, <<"b">>}

\* '/'.join(path_parts)
RECURSIVE Join(_)
Join(parts) ==
    IF parts = <<>> THEN <<>>
    ELSE IF Len(parts) = 1 THEN parts[1]
    ELSE parts[1] \o <<Slash>> \o Join(Tail(parts))

\* SwiftFTPShell._fullpath
fullpath(path_parts) == Join(path_parts)

\* the position of the first "/" of a string, 0 when it has none
IndexOfSlash(s) ==
    IF \E i \in 1..Len(s) : s[i] = Slash
    THEN CHOOSE i \in 1..Len(s) :
            s[i] = Slash /\ \A j \in 1..(i - 1) : s[j] # Slash
    ELSE 0

\* obj_to_path: <<container, object name>>; an absent part is the empty string
obj_to_path(s) ==
    LET i == IndexOfSlash(s)
    IN  IF i = 0 THEN <<s, <<>>>>
        ELSE <<SubSeq(s, 1, i - 1), SubSeq(s, i + 1, Len(s))>>

\* the paths the commands of the model are given, as lists of segments
CmdPaths ==
    {<<>>} \cup {<<c>> : c \in ContainerNames}
           \cup {<<<<"t">>, a>> : a \in SegNames}
           \cup {<<<<"t">>, a, b>> : a \in SegNames, b \in SegNames}
           \cup {<< <<"u">>, <<"a">> >>}

ObjNames == {Join(<<a>>) : a \in SegNames}
                \cup {Join(<<a, b>>) : a \in SegNames, b \in SegNames}
ObjKeys == ({<<"t">>} \X ObjNames) \cup {<< <<"u">>, <<"a">> >>}
Kinds == {"file", "dir"}     \* "dir": content type application/directory

EmptyStore == [containers |-> {}, objects |-> [k \in {} |-> "file"]]

\* every account of at most MaxObjs objects, each in a container that exists
Stores ==
    UNION {UNION {{[containers |-> C, objects |-> o] : o \in [K -> Kinds]} :
                  K \in {K \in SUBSET ObjKeys :
                            /\ Cardinality(K) <= MaxObjs
                            /\ \A k \in K : k[1] \in C}} :
           C \in SUBSET ContainerNames}

KindOf(store, c, n) ==
    IF <<c, n>> \in DOMAIN store.objects THEN store.objects[<<c, n>>] ELSE None

\* name begins with the prefix n followed by "/"
HasPrefix(n, name) ==
    \/ n = <<>>
    \/ /\ Len(n) < Len(name)
       /\ SubSeq(name, 1, Len(n)) = n
       /\ name[Len(n) + 1] = Slash

\* the objects of container c whose name begins with the prefix n
Under(store, c, n) ==
    {k \in DOMAIN store.objects : k[1] = c /\ HasPrefix(n, k[2])}

\* what is left of a name after the prefix
Rest(n, name) ==
    IF n = <<>> THEN name ELSE SubSeq(name, Len(n) + 2, Len(name))

FirstSegment(s) ==
    LET i == IndexOfSlash(s) IN IF i = 0 THEN s ELSE SubSeq(s, 1, i - 1)

\* what a path resolves to
Resolve(store, full) ==
    LET c == obj_to_path(full)[1]
        n == obj_to_path(full)[2]
    IN  IF c = <<>> THEN "root"
        ELSE IF c \notin store.containers THEN "absent"
        ELSE IF n = <<>> THEN "container"
        ELSE IF KindOf(store, c, n) = "file" THEN "file"
        ELSE IF KindOf(store, c, n) = "dir" THEN "marker"
        ELSE IF Under(store, c, n) # {} THEN "implied"
        ELSE "absent"

IsDirectory(store, full) ==
    Resolve(store, full) \in {"root", "container", "marker", "implied"}

\* Listing aggregation: of every object under the prefix the first remaining
\* segment is a child; a child with more segments after it, or a marker, is a
\* directory; children of one name collapse into one entry.
Aggregate(store, c, n) ==
    LET names == {FirstSegment(Rest(n, k[2])) : k \in Under(store, c, n)}
        isdir(ch) ==
            \E k \in Under(store, c, n) :
                /\ FirstSegment(Rest(n, k[2])) = ch
                /\ \/ Rest(n, k[2]) # ch
                   \/ store.objects[k] = "dir"
    IN  [ch \in names |-> IF isdir(ch) THEN "dir" ELSE "file"]

\* the mapping child name -> kind of a path that resolves
Listing(store, full) ==
    LET c == obj_to_path(full)[1]
        n == obj_to_path(full)[2]
    IN  IF c = <<>> THEN [ch \in store.containers |-> "dir"]
        ELSE Aggregate(store, c, n)

HasChildren(store, full) == DOMAIN Listing(store, full) # {}

OkWith(v) == [s |-> "ok", why |-> None, v |-> v]

\* an exception raised by the call itself, before any deferred exists
Raised(e) == [s |-> "raised", why |-> e]

Returns(outcome, store) == [out |-> outcome, store |-> store]

\* getAttrs(path)
fs_getAttrs(store, full) ==
    CASE Resolve(store, full) = "absent" -> Returns(Fail("NotFound"), store)
      [] Resolve(store, full) = "file" ->
            Returns(OkWith([content_type |-> "application/octet-stream"]), store)
      [] OTHER ->
            Returns(OkWith([content_type |-> "application/directory"]), store)

\* checkFileExistence(path): the probe before an open for reading
fs_checkFileExistance(store, full) ==
    CASE IsDirectory(store, full) ->
            Returns(Raised("NotImplementedError"), store)
      [] Resolve(store, full) = "absent" -> Returns(Fail("NotFound"), store)
      [] OTHER -> Returns(OkWith("headers"), store)

\* getFullListing(path)
fs_get_full_listing(store, full) ==
    IF Resolve(store, full) = "absent"
    THEN Returns(Fail("NotFound"), store)
    ELSE Returns(OkWith(Listing(store, full)), store)

WithoutObject(store, c, n) ==
    [store EXCEPT !.objects =
        [k \in (DOMAIN store.objects) \ {<<c, n>>} |-> store.objects[k]]]

WithObject(store, c, n, kind) ==
    [store EXCEPT !.objects =
        [k \in (DOMAIN store.objects) \cup {<<c, n>>} |->
            IF k = <<c, n>> THEN kind ELSE store.objects[k]]]

WithoutContainer(store, c) ==
    [store EXCEPT !.containers = store.containers \ {c}]

WithContainer(store, c) ==
    [store EXCEPT !.containers = store.containers \cup {c}]

\* makeDirectory(path)
fs_makeDirectory(store, full) ==
    LET c == obj_to_path(full)[1]
        n == obj_to_path(full)[2]
    IN  IF c = <<>> THEN Returns(Fail("NotImplementedError"), store)
        ELSE IF n = <<>> THEN Returns(Ok, WithContainer(store, c))
        ELSE IF c \notin store.containers
        THEN Returns(Fail("NotFound"), store)
        ELSE Returns(Ok, WithObject(store, c, n, "dir"))

\* removeDirectory(path): a container is deleted when it is empty; below a
\* container the object of that name is deleted, whatever lies under it
\* (DeleteTests.test_delete_populated_dir, RmdirTests.test_rmdir_object_dir)
fs_removeDirectory(store, full) ==
    LET c == obj_to_path(full)[1]
        n == obj_to_path(full)[2]
    IN  IF c = <<>> THEN Returns(Fail("NotImplementedError"), store)
        ELSE IF c \notin store.containers THEN Returns(Fail("NotFound"), store)
        ELSE IF n = <<>>
        THEN IF HasChildren(store, full) THEN Returns(Fail("Conflict"), store)
             ELSE Returns(Ok, WithoutContainer(store, c))
        ELSE IF KindOf(store, c, n) # None
        THEN Returns(Ok, WithoutObject(store, c, n))
        ELSE Returns(Fail("NotFound"), store)

\* removeFile(path)
fs_removeFile(store, full) ==
    LET c == obj_to_path(full)[1]
        n == obj_to_path(full)[2]
        r == Resolve(store, full)
    IN  IF r \in {"root", "container", "marker", "implied"}
        THEN Returns(Fail("NotImplementedError"), store)
        ELSE IF r = "file" THEN Returns(Ok, WithoutObject(store, c, n))
        ELSE Returns(Fail("NotFound"), store)

NumObjects(store) == Cardinality(DOMAIN store.objects)

\* renameFile(oldpath, newpath): copy, then delete.  A path with a listed
\* child is a directory with children, also when an object has its name.
fs_renameFile(store, old, new) ==
    LET c == obj_to_path(old)[1]
        n == obj_to_path(old)[2]
        nc == obj_to_path(new)[1]
        nn == obj_to_path(new)[2]
        r == Resolve(store, old)
    IN  IF r = "root" THEN Returns(Fail("NotImplementedError"), store)
        ELSE IF r = "absent" THEN Returns(Fail("NotFound"), store)
        ELSE IF nc = <<>> THEN Returns(Fail("NotImplementedError"), store)
        ELSE IF HasChildren(store, old)
        THEN Returns(Fail("NotImplementedError"), store)
        ELSE IF HasChildren(store, new)
        THEN Returns(Fail("NotImplementedError"), store)
        ELSE IF r = "container"
        THEN IF nn # <<>> THEN Returns(Fail("NotImplementedError"), store)
             ELSE Returns(Ok, WithoutContainer(WithContainer(store, nc), c))
        ELSE IF nc # c \/ nn = <<>>
        THEN Returns(Fail("NotImplementedError"), store)
        ELSE Returns(Ok, WithoutObject(
                            WithObject(store, c, nn, KindOf(store, c, n)), c, n))

\* startFileUpload(path), once the upload has completed
fs_startFileUpload(store, full) ==
    LET c == obj_to_path(full)[1]
        n == obj_to_path(full)[2]
    IN  IF c = <<>> \/ n = <<>>
        THEN Returns(Fail("NotImplementedError"), store)
        ELSE IF c \notin store.containers
        THEN Returns(Fail("NotFound"), store)
        ELSE Returns(Ok, WithObject(store, c, n, "file"))

(***************************************************************************)
(* The front ends: each command calls the adapter and maps its outcome.    *)
(***************************************************************************)
\* d.addCallback(cb): cb sees the value of a success; a failure passes by
AddCallback(d, cb(_)) == IF d.s = "ok" THEN cb(d.v) ELSE d

ftp_makeDirectory_relaxed(outcome) ==
    IF allow_no_existing_path /\ outcome = Fail("NotFound") THEN Ok
    ELSE outcome

\* SwiftFTPShell.makeDirectory
ftp_makeDirectory(outcome) == outcome

ftp_removeFile_errback_returns(e) ==
    IF e \in {"NotFound", "NotImplementedError"} THEN Ok ELSE Fail(e)

\* SwiftFTPShell.removeFile: errback
ftp_removeFile_errback(e) ==
    IF e \in {"NotFound", "NotImplementedError"}
    THEN IF e = "NotImplementedError" THEN Fail("IsADirectoryError") ELSE Ok
    ELSE Fail(e)

\* SwiftFTPShell.removeFile
ftp_removeFile(outcome) == AddErrback(outcome, ftp_removeFile_errback)

ftp_rename_errback_unsupported(e) ==
    IF e \in {"NotFound", "Conflict", "NotImplementedError"}
    THEN Fail("CmdNotImplementedForArgError")
    ELSE Fail(e)

ftp_rename_errback_returns(e) ==
    IF e \in {"NotFound", "Conflict", "NotImplementedError"}
    THEN IF e = "NotFound" THEN Fail("FileNotFoundError") ELSE Ok
    ELSE Fail(e)

ftp_rename_errback_raises(e) == Fail(e)

\* SwiftFTPShell.rename: errback
ftp_rename_errback(e) ==
    IF e \in {"NotFound", "Conflict", "NotImplementedError"}
    THEN IF e = "NotFound" THEN Fail("FileNotFoundError")
         ELSE Fail("CmdNotImplementedForArgError")
    ELSE Fail(e)

\* SwiftFTPShell.rename
ftp_rename(outcome) == AddErrback(outcome, ftp_rename_errback)

ftp_access_cb_any(result) == Ok

\* SwiftFTPShell.access: cb
ftp_access_cb(result) ==
    IF result.content_type = "application/directory"
    THEN Ok ELSE Fail("IsNotADirectoryError")

ftp_access_err_single(path, allow, e) ==
    IF e = "NotFound"
    THEN IF ~allow THEN Fail("IsNotADirectoryError")
         ELSE IF Len(path) = 1 THEN Ok
         ELSE Fail("IsNotADirectoryError")
    ELSE Fail(e)

\* SwiftFTPShell.access: err
ftp_access_err(path, allow, e) ==
    IF e = "NotFound"
    THEN IF ~allow THEN Fail("IsNotADirectoryError")
         ELSE IF Len(path) # 1 THEN Ok
         ELSE Fail("IsNotADirectoryError")
    ELSE Fail(e)

\* SwiftFTPShell.access: err_forbidden
ftp_access_err_forbidden(e) ==
    IF e = "UnAuthorized" THEN Fail("PermissionDeniedError") ELSE Fail(e)

\* SwiftFTPShell.access
ftp_access(path, allow, outcome) ==
    LET d1 == AddCallback(outcome, ftp_access_cb)
        d2 == IF d1.s = "fail" THEN ftp_access_err(path, allow, d1.why) ELSE d1
    IN  AddErrback(d2, ftp_access_err_forbidden)

\* some order of the items of a mapping
RECURSIVE iteritems(_)
iteritems(m) ==
    IF DOMAIN m = {} THEN <<>>
    ELSE LET k == CHOOSE k \in DOMAIN m : TRUE
         IN  <<<<k, m[k]>>>> \o iteritems([x \in (DOMAIN m) \ {k} |-> m[x]])

\* stat_format, the 'directory' key
stat_format(value) == value = "dir"

RECURSIVE ListOf(_)
ListOf(items) ==
    IF items = <<>> THEN <<>>
    ELSE <<<<items[1][1], stat_format(items[1][2])>>>> \o ListOf(Tail(items))

ftp_list_cb_twice(results) ==
    OkWith(ListOf(iteritems(results)) \o ListOf(iteritems(results)))

\* SwiftFTPShell.list: cb
ftp_list_cb(results) == OkWith(ListOf(iteritems(results)))

ftp_list_err_returns(e) == IF e = "NotFound" THEN Ok ELSE Fail(e)

\* SwiftFTPShell.list: err
ftp_list_err(e) == IF e = "NotFound" THEN Fail("FileNotFoundError") ELSE Fail(e)

\* SwiftFTPShell.list
ftp_list(outcome) == AddErrback(AddCallback(outcome, ftp_list_cb), ftp_list_err)

\* SwiftFTPShell.stat: cb, the 'directory' key of the attributes
ftp_stat_cb(result) ==
    OkWith(stat_format(IF result.content_type = "application/directory"
                       THEN "dir" ELSE "file"))

\* SwiftFTPShell.stat: err
ftp_stat_err(e) == IF e = "NotFound" THEN Fail("FileNotFoundError") ELSE Fail(e)

\* SwiftFTPShell.stat
ftp_stat(outcome) == AddErrback(AddCallback(outcome, ftp_stat_cb), ftp_stat_err)

\* SwiftFTPShell.openForReading: cb
ftp_openForReading_cb(results) == OkWith("SwiftReadFile")

\* SwiftFTPShell.openForReading: err
ftp_openForReading_err(e) ==
    IF e = "NotFound" THEN Fail("FileNotFoundError") ELSE Fail(e)

\* SwiftFTPShell.openForReading: an exception the probe raises instead of
\* returning a deferred is caught when it is NotImplementedError
ftp_openForReading(outcome) ==
    IF outcome.s = "raised"
    THEN IF outcome.why = "NotImplementedError"
         THEN Fail("IsADirectoryError") ELSE outcome
    ELSE AddErrback(AddCallback(outcome, ftp_openForReading_cb),
                    ftp_openForReading_err)

ftp_openForWriting_containerOnly(path) ==
    IF obj_to_path(fullpath(path))[1] = <<>>
    THEN Fail("CmdNotImplementedForArgError")
    ELSE OkWith(fullpath(path))

\* SwiftFTPShell.openForWriting: the SwiftWriteFile of the path, or the error
ftp_openForWriting(path) ==
    IF obj_to_path(fullpath(path))[1] = <<>>
       \/ obj_to_path(fullpath(path))[2] = <<>>
    THEN Fail("CmdNotImplementedForArgError")
    ELSE OkWith(fullpath(path))

\* SFTPServerForSwiftConchUser.makeDirectory: errback
sftp_makeDirectory_errback(e) ==
    IF e = "NotFound" THEN Fail("SFTPError_FX_NO_SUCH_FILE") ELSE Fail(e)

\* SFTPServerForSwiftConchUser.makeDirectory
sftp_makeDirectory(outcome) == AddErrback(outcome, sftp_makeDirectory_errback)

\* SFTPServerForSwiftConchUser.removeFile: errback
sftp_removeFile_errback(e) == IF e = "NotFound" THEN Ok ELSE Fail(e)

\* SFTPServerForSwiftConchUser.removeFile
sftp_removeFile(outcome) == AddErrback(outcome, sftp_removeFile_errback)

\* SFTPServerForSwiftConchUser.renameFile: errback
sftp_renameFile_errback(e) ==
    IF e \in {"NotFound", "Conflict"}
    THEN IF e = "NotFound" THEN Fail("SFTPError_FX_NO_SUCH_FILE")
         ELSE Fail("NotImplementedError")
    ELSE Fail(e)

sftp_renameFile_swallows(outcome) == Ok

\* SFTPServerForSwiftConchUser.renameFile
sftp_renameFile(outcome) == AddErrback(outcome, sftp_renameFile_errback)

\* SFTPServerForSwiftConchUser.openFile: callback, the SwiftFile
sftp_openFile_cb(r) == OkWith("SwiftFile")

\* SFTPServerForSwiftConchUser.openFile: errback
sftp_openFile_errback(e) ==
    IF e = "NotFound" THEN Fail("SFTPError_FX_FAILURE") ELSE Fail(e)

\* SFTPServerForSwiftConchUser.openFile
sftp_openFile(outcome) ==
    AddErrback(AddCallback(outcome, sftp_openFile_cb), sftp_openFile_errback)

\* SFTPServerForSwiftConchUser.openDirectory: cb, the SwiftDirectory
sftp_openDirectory_cb(result) == OkWith("SwiftDirectory")

\* SFTPServerForSwiftConchUser.openDirectory: errback
sftp_openDirectory_errback(e) ==
    IF e = "NotFound" THEN Fail("SFTPError_FX_FAILURE") ELSE Fail(e)

\* SFTPServerForSwiftConchUser.openDirectory
sftp_openDirectory(outcome) ==
    AddErrback(AddCallback(outcome, sftp_openDirectory_cb),
               sftp_openDirectory_errback)

\* SFTPServerForSwiftConchUser.format_attrs, the directory bit of permissions
format_attrs(result) == result.content_type = "application/directory"

\* SFTPServerForSwiftConchUser.getAttrs: cb
sftp_getAttrs_cb(result) == OkWith(format_attrs(result))

\* SFTPServerForSwiftConchUser.getAttrs: errback
sftp_getAttrs_errback(e) ==
    IF e = "NotFound" THEN Fail("SFTPError_FX_NO_SUCH_FILE") ELSE Fail(e)

\* SFTPServerForSwiftConchUser.getAttrs
sftp_getAttrs(outcome) ==
    AddErrback(AddCallback(outcome, sftp_getAttrs_cb), sftp_getAttrs_errback)

\* SFTPServerForSwiftConchUser.setAttrs: return
sftp_setAttrs(path, attrs) == Ok

sftp_readLink_returns(path) == Ok

\* SFTPServerForSwiftConchUser.readLink: raise NotImplementedError
sftp_readLink(path) == Raised("NotImplementedError")

\* SFTPServerForSwiftConchUser.makeLink: raise NotImplementedError
sftp_makeLink(linkPath, targetPath) == Raised("NotImplementedError")

\* SFTPServerForSwiftConchUser.extendedRequest: raise NotImplementedError
sftp_extendedRequest(extName, extData) == Raised("NotImplementedError")

(***************************************************************************)
(* A session: the engine hands the shell one command at a time and sends   *)
(* the reply before the next.                                              *)
(***************************************************************************)
NoCmd == [fe |-> None, op |-> None, path |-> <<>>, newpath |-> <<>>,
          adapter |-> NotMade, result |-> NotMade, before |-> EmptyStore]

\* no second answer to compare with
NoTwin == [cmd |-> NoCmd, after |-> EmptyStore]

FsIdle ==
    /\ swift = EmptyStore
    /\ allow_no_existing_path = FALSE
    /\ shellcmd = NoCmd
    /\ twin = NoTwin

FsInit ==
    /\ swift \in Stores
    /\ allow_no_existing_path \in BOOLEAN
    /\ shellcmd = NoCmd
    /\ twin = NoTwin

\* one command: the adapter's call ret, and the result the front end gives
Command(fe, op, path, newpath, ret, result) ==
    /\ shellcmd = NoCmd
    /\ twin = NoTwin
         \/ (/\ twin.cmd.fe = fe /\ twin.cmd.op = op
             /\ twin.cmd.path = path /\ twin.cmd.newpath = newpath)
    /\ NumObjects(ret.store) <= MaxObjs
    /\ swift' = ret.store
    /\ shellcmd' = [fe |-> fe, op |-> op, path |-> path, newpath |-> newpath,
                    adapter |-> ret.out, result |-> result, before |-> swift]
    /\ UNCHANGED <<allow_no_existing_path, twin>>

FtpMKD(path) ==
    LET ret == fs_makeDirectory(swift, fullpath(path))
    IN  Command("ftp", "makeDirectory", path, <<>>, ret,
                ftp_makeDirectory(ret.out))

FtpRMD(path) ==
    LET ret == fs_removeDirectory(swift, fullpath(path))
    IN  Command("ftp", "removeDirectory", path, <<>>, ret,
                ftp_removeDirectory(ret.out))

FtpDELE(path) ==
    LET ret == fs_removeFile(swift, fullpath(path))
    IN  Command("ftp", "removeFile", path, <<>>, ret, ftp_removeFile(ret.out))

FtpRNTO(fromPath, toPath) ==
    LET ret == fs_renameFile(swift, fullpath(fromPath), fullpath(toPath))
    IN  Command("ftp", "rename", fromPath, toPath, ret, ftp_rename(ret.out))

FtpCWD(path) ==
    LET ret == fs_getAttrs(swift, fullpath(path))
    IN  Command("ftp", "access", path, <<>>, ret,
                ftp_access(path, allow_no_existing_path, ret.out))

FtpLIST(path) ==
    LET ret == fs_get_full_listing(swift, fullpath(path))
    IN  Command("ftp", "list", path, <<>>, ret, ftp_list(ret.out))

\* STOR: openForWriting, then receive and close of the file it returned
FtpSTOR(path) ==
    LET f == ftp_openForWriting(path)
        ret == IF f.s = "ok" THEN fs_startFileUpload(swift, f.v)
               ELSE Returns(NotMade, swift)
    IN  Command("ftp", "openForWriting", path, <<>>, ret,
                IF f.s = "ok" THEN ret.out ELSE f)

FtpSIZE(path) ==
    LET ret == fs_getAttrs(swift, fullpath(path))
    IN  Command("ftp", "stat", path, <<>>, ret, ftp_stat(ret.out))

FtpRETR(path) ==
    LET ret == fs_checkFileExistance(swift, fullpath(path))
    IN  Command("ftp", "openForReading", path, <<>>, ret,
                ftp_openForReading(ret.out))

SftpMKDIR(path) ==
    LET ret == fs_makeDirectory(swift, Join(path))
    IN  Command("sftp", "makeDirectory", path, <<>>, ret,
                sftp_makeDirectory(ret.out))

SftpRMDIR(path) ==
    LET ret == fs_removeDirectory(swift, Join(path))
    IN  Command("sftp", "removeDirectory", path, <<>>, ret,
                sftp_removeDirectory(ret.out))

SftpREMOVE(path) ==
    LET ret == fs_removeFile(swift, Join(path))
    IN  Command("sftp", "removeFile", path, <<>>, ret,
                sftp_removeFile(ret.out))

SftpRENAME(oldpath, newpath) ==
    LET ret == fs_renameFile(swift, Join(oldpath), Join(newpath))
    IN  Command("sftp", "rename", oldpath, newpath, ret,
                sftp_renameFile(ret.out))

\* the attributes a client may ask to set, and the names of extensions
AttrsSets == {"none", "permissions"}
ExtNames == {"statvfs@openssh.com", "posix-rename@openssh.com"}
LinkTargets == {<<>>, << <<"t">>, <<"a">> >>}

SftpSETSTAT(path, attrs) ==
    Command("sftp", "setAttrs", path, <<>>, Returns(NotMade, swift),
            sftp_setAttrs(path, attrs))

SftpREADLINK(path) ==
    Command("sftp", "readLink", path, <<>>, Returns(NotMade, swift),
            sftp_readLink(path))

SftpSYMLINK(linkPath, targetPath) ==
    Command("sftp", "makeLink", linkPath, targetPath, Returns(NotMade, swift),
            sftp_makeLink(linkPath, targetPath))

SftpEXTENDED(extName, extData) ==
    Command("sftp", "extendedRequest", <<extName>>, extData,
            Returns(NotMade, swift), sftp_extendedRequest(extName, extData))

\* the reply is sent; the shell is ready for the next command
Replied ==
    /\ shellcmd # NoCmd
    /\ shellcmd' = NoCmd
    /\ twin' = NoTwin
    /\ UNCHANGED <<swift, allow_no_existing_path>>

\* the second run: the store as it was before the command, the answer kept
\* aside, and an FTP shell with allow_no_existing_path the other way
Rewind ==
    /\ shellcmd # NoCmd
    /\ shellcmd.fe = "ftp"
    /\ twin = NoTwin
    /\ twin' = [cmd |-> shellcmd, after |-> swift]
    /\ swift' = shellcmd.before
    /\ allow_no_existing_path' = ~allow_no_existing_path
    /\ shellcmd' = NoCmd

FsNext ==
    \/ \E p \in CmdPaths : FtpMKD(p)
    \/ \E p \in CmdPaths : FtpRMD(p)
    \/ \E p \in CmdPaths : FtpDELE(p)
    \/ \E p \in CmdPaths, q \in CmdPaths : FtpRNTO(p, q)
    \/ \E p \in CmdPaths : FtpCWD(p)
    \/ \E p \in CmdPaths : FtpLIST(p)
    \/ \E p \in CmdPaths : FtpSTOR(p)
    \/ \E p \in CmdPaths : FtpSIZE(p)
    \/ \E p \in CmdPaths : FtpRETR(p)
    \/ \E p \in CmdPaths : SftpMKDIR(p)
    \/ \E p \in CmdPaths : SftpRMDIR(p)
    \/ \E p \in CmdPaths : SftpREMOVE(p)
    \/ \E p \in CmdPaths, q \in CmdPaths : SftpRENAME(p, q)
    \/ \E p \in CmdPaths, a \in AttrsSets : SftpSETSTAT(p, a)
    \/ \E p \in CmdPaths : SftpREADLINK(p)
    \/ \E p \in CmdPaths, q \in LinkTargets : SftpSYMLINK(p, q)
    \/ \E n \in ExtNames, p \in CmdPaths : SftpEXTENDED(n, p)
    \/ Replied

(***************************************************************************)
(* The front ends, operation by operation, on every outcome the adapter    *)
(* can hand them.                                                          *)
(***************************************************************************)
ContentTypes == {"application/directory", "application/octet-stream"}
Failures == {Fail(e) : e \in AdapterErrors}
AttrsOutcomes == {OkWith([content_type |-> t]) : t \in ContentTypes} \cup Failures
ListingOutcomes ==
    {OkWith(l) : l \in {[n \in {} |-> "file"], [n \in {<<"a">>} |-> "file"]}}
        \cup Failures
ProbeOutcomes ==
    {OkWith("headers"), Raised("NotImplementedError")} \cup Failures

FtpMakeDirectory(outcome) ==
    Logged("ftp", "makeDirectory", outcome, ftp_makeDirectory(outcome))

FtpRemoveFile(outcome) ==
    Logged("ftp", "removeFile", outcome, ftp_removeFile(outcome))

FtpRename(outcome) ==
    Logged("ftp", "rename", outcome, ftp_rename(outcome))

FtpAccess(path, allow, outcome) ==
    Logged("ftp", "access", outcome, ftp_access(path, allow, outcome))

FtpStat(outcome) ==
    Logged("ftp", "stat", outcome, ftp_stat(outcome))

FtpList(outcome) ==
    Logged("ftp", "list", outcome, ftp_list(outcome))

FtpOpenForReading(outcome) ==
    Logged("ftp", "openForReading", outcome, ftp_openForReading(outcome))

SftpOpenFile(outcome) ==
    Logged("sftp", "openFile", outcome, sftp_openFile(outcome))

SftpRemoveFile(outcome) ==
    Logged("sftp", "removeFile", outcome, sftp_removeFile(outcome))

SftpRenameFile(outcome) ==
    Logged("sftp", "renameFile", outcome, sftp_renameFile(outcome))

SftpMakeDirectory(outcome) ==
    Logged("sftp", "makeDirectory", outcome, sftp_makeDirectory(outcome))

SftpOpenDirectory(outcome) ==
    Logged("sftp", "openDirectory", outcome, sftp_openDirectory(outcome))

SftpGetAttrs(outcome) ==
    Logged("sftp", "getAttrs", outcome, sftp_getAttrs(outcome))

MapNext ==
    \/ \E o \in AdapterOutcomes : FtpMakeDirectory(o)
    \/ \E o \in AdapterOutcomes : FtpRemoveDirectory(o)
    \/ \E o \in AdapterOutcomes : FtpRemoveFile(o)
    \/ \E o \in AdapterOutcomes : FtpRename(o)
    \/ \E p \in CmdPaths, allow \in BOOLEAN, o \in AttrsOutcomes :
            FtpAccess(p, allow, o)
    \/ \E o \in AttrsOutcomes : FtpStat(o)
    \/ \E o \in ListingOutcomes : FtpList(o)
    \/ \E o \in ProbeOutcomes : FtpOpenForReading(o)
    \/ \E o \in ProbeOutcomes \ {Raised("NotImplementedError")} : SftpOpenFile(o)
    \/ \E o \in AdapterOutcomes : SftpRemoveFile(o)
    \/ \E o \in AdapterOutcomes : SftpRenameFile(o)
    \/ \E o \in AdapterOutcomes : SftpMakeDirectory(o)
    \/ \E o \in AdapterOutcomes : SftpRemoveDirectory(o)
    \/ \E o \in ListingOutcomes : SftpOpenDirectory(o)
    \/ \E o \in AttrsOutcomes : SftpGetAttrs(o)

(***************************************************************************)
(* SwftpFTPProtocol: the command lines it handles before the FTP engine.   *)
(* An argument is a string, a sequence of characters.                      *)
(***************************************************************************)
MaxArgLen == 4
ArgChars == {"-", "a", "l", "A", " ", "d"}
Args == UNION {[1..n -> ArgChars] : n \in 0..MaxArgLen}

\* the index of the first whitespace of s, Len(s) + 1 when there is none
IndexOfSpace(s) ==
    IF \E i \in 1..Len(s) : s[i] = " "
    THEN CHOOSE i \in 1..Len(s) : s[i] = " " /\ \A j \in 1..(i - 1) : s[j] # " "
    ELSE Len(s) + 1

\* str.split(): the runs of characters between whitespace, none of them empty
RECURSIVE split(_)
split(s) ==
    IF s = <<>> THEN <<>>
    ELSE IF s[1] = " " THEN split(Tail(s))
    ELSE <<SubSeq(s, 1, IndexOfSpace(s) - 1)>>
             \o split(SubSeq(s, IndexOfSpace(s), Len(s)))

\* str.lower()
lower(s) == [i \in DOMAIN s |-> IF s[i] = "A" THEN "a" ELSE s[i]]

\* sep.join(tokens)
RECURSIVE join(_, _)
join(sep, tokens) ==
    IF tokens = <<>> THEN <<>>
    ELSE IF Len(tokens) = 1 THEN tokens[1]
    ELSE tokens[1] \o sep \o join(sep, Tail(tokens))

\* keys = ['-a', '-l', '-la', '-al']
keys == {<<"-", "a">>, <<"-", "l">>, <<"-", "l", "a">>, <<"-", "a", "l">>}

\* SwftpFTPProtocol.ftp_LIST: the path handed on to FTP.ftp_LIST
ftp_LIST(path) ==
    LET segm == split(path)
        kept(t) == lower(t) \notin keys
    IN  join(<<" ">>, SelectSeq(segm, kept))

\* the reply keys of the FTP engine, and the lines it has for them
ReplyKeys == {"NAME_SYS_TYPE", "CMD_OK", "PWD_REPLY"}
ReplyArgs == {<<>>, <<"/">>}

\* FTP.reply: the line of the key, filled in with the arguments
FTP_reply(key, args) == <<key, args>>

\* SwftpFTPProtocol.reply: the line sent
reply(key, args) ==
    IF key = "NAME_SYS_TYPE" THEN "205 UNIX Type: I"
    ELSE FTP_reply(key, args)

\* LIST <argument> arrives
ListLine(arg) ==
    /\ shellcmd = NoCmd
    /\ shellcmd' = [fe |-> "ftp", op |-> "LIST", path |-> arg,
                    newpath |-> ftp_LIST(arg), adapter |-> NotMade,
                    result |-> NotMade, before |-> swift]
    /\ UNCHANGED <<swift, allow_no_existing_path, twin>>

\* the engine replies with a key: SYST replies NAME_SYS_TYPE
ReplyLine(key, args) ==
    /\ shellcmd = NoCmd
    /\ shellcmd' = [fe |-> "ftp", op |-> "reply", path |-> <<key>>,
                    newpath |-> args, adapter |-> NotMade,
                    result |-> OkWith(reply(key, args)), before |-> swift]
    /\ UNCHANGED <<swift, allow_no_existing_path, twin>>

LineNext ==
    \/ \E arg \in Args : ListLine(arg)
    \/ \E key \in ReplyKeys, args \in ReplyArgs : ReplyLine(key, args)
    \/ Replied

(***************************************************************************)
(* bench.py                                                                *)
(***************************************************************************)
BUFFER_LEN == 65536
MaxFtp == 2           \* connections made
MaxJobs == 2          \* units of work spawned
MaxFileChunks == 2    \* the declared size is at most this many chunks

\* not running
BenchIdle == bench = None

\* the declared sizes: on and off the chunk boundaries
Sizes == {k * (BUFFER_LEN \div 2) : k \in 0..(2 * MaxFileChunks)}

\* FTPPool._connect returns None when the login is refused for now; 0 is None
IsNone(ftp) == ftp = 0

\* greenlets are told apart by the connection they were given
Without(busy, g) == {h \in busy : h.ftp # g.ftp}

\* FTPPool.__init__ and Stats.__init__: the pool holds min_ connections,
\* one of which may be a None that _connect returned
BenchInit ==
    \E min_ \in 0..1, none \in SUBSET {0}, max_ \in 0..1 :
        bench = [pool |-> 1..min_ \cup none, busy |-> {}, closed |-> {},
                 made |-> min_, max_ |-> max_, spawned |-> 0,
                 stat |-> [stor |-> 0, errors |-> 0, busy |-> 0, bytes_ |-> 0]]

\* FTPPool._get_ftp: a connection of the pool, or a new one when the pool is
\* empty and the busy workers are not over max_
get_ftp(ftp) ==
    IF bench.pool # {}
    THEN /\ ftp \in bench.pool
    ELSE /\ ~(bench.max_ # 0 /\ Cardinality(bench.busy) > bench.max_)
         /\ bench.made < MaxFtp
         /\ ftp = bench.made + 1

\* FTPPool.spawn_ftp(stor, path, size, stat)
spawn_ftp(ftp, size) ==
    /\ bench.spawned < MaxJobs
    /\ get_ftp(ftp)
    /\ LET gr == [ftp |-> ftp, size |-> size, chunk_size |-> 0,
                  total_sent |-> 0, pc |-> "spawned"]
           busy == bench.busy \cup {gr}
       IN  bench' = [bench EXCEPT
                        !.pool = @ \ {ftp},
                        !.made = IF bench.pool = {} THEN @ + 1 ELSE @,
                        !.spawned = @ + 1,
                        !.busy = busy,
                        !.stat.busy = Cardinality(busy)]

\* the worker goes on as h
Goes(g, h) == [bench EXCEPT !.busy = Without(@, g) \cup {h}]

\* stor: except Exception: stat.inrc_err(); raise
Raises(g) ==
    bench' = [Goes(g, [g EXCEPT !.pc = "failed"]) EXCEPT !.stat.errors = @ + 1]

\* stor: voidcmd("TYPE I") and transfercmd("STOR ...") went through
stor_begin(g) ==
    /\ g.pc = "spawned"
    /\ ~IsNone(g.ftp)
    /\ bench' = Goes(g, [g EXCEPT !.pc = "sending", !.chunk_size = BUFFER_LEN])

\* stor: an ftplib call or conn.send raises (always, on a None connection)
stor_raises(g) ==
    /\ g.pc \in {"spawned", "sending", "closing"}
    /\ Raises(g)

after_chunk_atLeast(total_sent, size) ==
    IF total_sent >= size THEN "break" ELSE "loop"

\* stor: after a whole chunk: break, raise RuntimeError, or the next chunk
after_chunk(total_sent, size) ==
    IF total_sent = size THEN "break"
    ELSE IF total_sent > size THEN "raise"
    ELSE "loop"

\* stor: sent = conn.send(CHUNK[:chunk_size]), the whole rest or half a chunk
stor_send(g, sent) ==
    /\ g.pc = "sending"
    /\ sent \in {g.chunk_size, BUFFER_LEN \div 2}
    /\ sent <= g.chunk_size
    /\ LET total_sent == g.total_sent + sent
           chunk_size == g.chunk_size - sent
           h == [g EXCEPT !.total_sent = total_sent, !.chunk_size = chunk_size]
           b == [bench EXCEPT !.stat.bytes_ = @ + sent]
       IN  IF chunk_size # 0
           THEN bench' = [b EXCEPT !.busy = Without(@, g) \cup {h}]
           ELSE CASE after_chunk(total_sent, g.size) = "break" ->
                       bench' = [b EXCEPT !.busy = Without(@, g) \cup
                                    {[h EXCEPT !.pc = "closing"]}]
                  [] after_chunk(total_sent, g.size) = "raise" ->
                       bench' = [b EXCEPT !.busy = Without(@, g) \cup
                                    {[h EXCEPT !.pc = "failed"]},
                                          !.stat.errors = @ + 1]
                  [] OTHER ->
                       bench' = [b EXCEPT !.busy = Without(@, g) \cup
                                    {[h EXCEPT !.chunk_size = BUFFER_LEN]}]

\* stor: conn.close(); ftp.voidresp() went through: else: stat.incr_stor()
stor_end(g) ==
    /\ g.pc = "closing"
    /\ bench' = [Goes(g, [g EXCEPT !.pc = "ok"]) EXCEPT !.stat.stor = @ + 1]

successful_always(g) == TRUE

\* gr.successful()
successful(g) == g.pc = "ok"

\* FTPPool._release_ftp, linked to the greenlet.  ftp.close() on a None
\* raises in the callback; the Group itself drops a finished greenlet.
release_ftp(g) ==
    /\ g.pc \in {"ok", "failed"}
    /\ LET busy == Without(bench.busy, g)
       IN  IF successful(g)
           THEN bench' = [bench EXCEPT !.pool = @ \cup {g.ftp},
                                        !.busy = busy,
                                        !.stat.busy = Cardinality(busy)]
           ELSE IF IsNone(g.ftp)
           THEN bench' = [bench EXCEPT !.busy = busy]
           ELSE bench' = [bench EXCEPT !.closed = @ \cup {g.ftp},
                                        !.busy = busy,
                                        !.stat.busy = Cardinality(busy)]

BenchNext ==
    \/ \E ftp \in 0..MaxFtp, size \in Sizes : spawn_ftp(ftp, size)
    \/ \E g \in bench.busy : stor_begin(g)
    \/ \E g \in bench.busy : stor_raises(g)
    \/ \E g \in bench.busy, sent \in {BUFFER_LEN \div 2, BUFFER_LEN} :
            stor_send(g, sent)
    \/ \E g \in bench.busy : stor_end(g)
    \/ \E g \in bench.busy : release_ftp(g)

(***************************************************************************)
(* The data connection of an FTP session.  PASV or PORT makes the factory  *)
(* (FTP.dtpFactory); the factory builds the DTP instance when the data     *)
(* connection is made and the instance gets its transport then.  The base  *)
(* class's cleanupDTP forgets the factory and the instance and leaves the  *)
(* socket as it is; SwftpFTPProtocol.cleanupDTP aborts it.                 *)
(***************************************************************************)
NoDtp == [dtpFactory |-> FALSE, dtpInstance |-> None, transport |-> None,
          socket |-> None]

DtpIdle == dtp = NoDtp

LifeIdle == trace = <<>> /\ sessions = 0

\* ftp_PASV, ftp_PORT
ftp_PASV ==
    /\ ~dtp.dtpFactory
    /\ dtp' = [NoDtp EXCEPT !.dtpFactory = TRUE]
    /\ trace' = <<>>

\* DTPFactory.buildProtocol: self.pi.dtpInstance = p
buildProtocol ==
    /\ dtp.dtpFactory
    /\ dtp.dtpInstance = None
    /\ dtp' = [dtp EXCEPT !.dtpInstance = "DTP"]
    /\ trace' = <<>>

\* the data connection is made: the instance gets its transport
makeConnection ==
    /\ dtp.dtpInstance # None
    /\ dtp.transport = None
    /\ dtp' = [dtp EXCEPT !.transport = "transport", !.socket = "open"]
    /\ trace' = <<>>

\* the peer closes the data connection; the instance keeps its transport
dataConnectionLost ==
    /\ dtp.socket = "open"
    /\ dtp' = [dtp EXCEPT !.socket = "closed"]
    /\ trace' = <<>>

\* FTP.cleanupDTP
FTP_cleanupDTP(d) ==
    [d EXCEPT !.dtpFactory = FALSE, !.dtpInstance = None, !.transport = None]

cleanupDTP_transport_late(d) ==
    IF FTP_cleanupDTP(d).dtpInstance # None
    THEN FTP_cleanupDTP(d).transport
    ELSE None

\* SwftpFTPProtocol.cleanupDTP, the transport it keeps before the base runs
cleanupDTP_transport(d) ==
    IF d.dtpInstance # None THEN d.transport ELSE None

\* transport.abortConnection(): nothing to do on a socket already closed
abortConnection(socket) == IF socket = "open" THEN "aborted" ELSE socket

\* SwftpFTPProtocol.cleanupDTP
cleanupDTP ==
    LET transport == cleanupDTP_transport(dtp)
        base == FTP_cleanupDTP(dtp)
    IN  /\ dtp.dtpFactory
        /\ dtp' = IF transport # None
                  THEN [base EXCEPT !.socket = abortConnection(@)]
                  ELSE base
        /\ trace' = <<"FTP.cleanupDTP">>
                    \o (IF transport # None THEN <<"abortConnection">>
                        ELSE <<>>)

DtpNext ==
    \/ ftp_PASV
    \/ buildProtocol
    \/ makeConnection
    \/ dataConnectionLost
    \/ cleanupDTP

(***************************************************************************)
(* The end of a session.  connectionLost of either class first takes the   *)
(* session out of the registry and then has the base class (FTP) or        *)
(* itself (SFTP) log the shell or avatar out; a successful login makes the *)
(* shell or avatar and then counts it.                                     *)
(***************************************************************************)
connectionLost_registry(r) ==
    IF r.shell # None THEN <<"decrement">> ELSE <<>>

connectionLost_logout(r) ==
    IF r.shell # None THEN <<"logout">> ELSE <<>>

connectionLost_trace(r) ==
    connectionLost_registry(r) \o connectionLost_logout(r)

LostAndLoggedOut(r) ==
    /\ connectionLost(r)
    /\ trace' = connectionLost_trace(r)
    /\ sessions' = sessions - Len(connectionLost_logout(r))

LoggedIn(r) ==
    /\ Counted(r)
    /\ trace' = <<"login", "increment">>
    /\ sessions' = sessions + 1

LifeNext ==
    \/ \E p \in Protos : connectionMade(p) /\ trace' = <<>>
                         /\ UNCHANGED sessions
    \/ \E r \in BagToSet(conns), u \in Users :
          ftp_PASS(r, u) /\ trace' = <<>> /\ UNCHANGED sessions
    \/ \E r \in BagToSet(conns), u \in Users :
          ssh_USERAUTH_REQUEST(r, u) /\ trace' = <<>> /\ UNCHANGED sessions
    \/ \E r \in BagToSet(conns) : LoggedIn(r)
    \/ \E r \in BagToSet(conns) :
          LoginFailed(r) /\ trace' = <<>> /\ UNCHANGED sessions
    \/ \E r \in BagToSet(conns) : LostAndLoggedOut(r)

Init == RegInit /\ XferInit /\ CmdInit /\ FsIdle /\ BenchIdle
          /\ DtpIdle /\ LifeIdle

Spec == Init /\ [][Next]_vars

InitIdle == RegIdle /\ XferInit /\ CmdInit /\ FsIdle /\ BenchIdle
          /\ DtpIdle /\ LifeIdle

\* the registries of the two classes as configured by default
SpecReg == InitIdle /\ [][Next]_vars

SpecXfer ==
    /\ InitIdle
    /\ [][XferNext /\ UNCHANGED <<regVars, cmdlog, fsVars, bench,
                   dtp, lifeVars>>]_vars

SpecCmd ==
    /\ InitIdle
    /\ [][CmdNext /\ UNCHANGED <<regVars, xferVars, fsVars, bench,
                   dtp, lifeVars>>]_vars

SpecMap ==
    /\ InitIdle
    /\ [][MapNext /\ UNCHANGED <<regVars, xferVars, fsVars, bench,
                   dtp, lifeVars>>]_vars

\* the command lines of a session and its data connections
LineOrDtp ==
    \/ LineNext /\ UNCHANGED <<dtp, trace>>
    \/ DtpNext /\ UNCHANGED fsVars

SpecLine ==
    /\ InitIdle
    /\ [][LineOrDtp /\ UNCHANGED <<regVars, xferVars, cmdlog, bench,
                                   sessions>>]_vars

\* the registry as configured by default, with what each session's end does
SpecLife ==
    /\ InitIdle
    /\ [][LifeNext /\ UNCHANGED <<rd, wr, cmdlog, fsVars, bench, dtp>>]_vars

InitBench == RegIdle /\ XferInit /\ CmdInit /\ FsIdle /\ BenchInit
          /\ DtpIdle /\ LifeIdle

SpecBench ==
    /\ InitBench
    /\ [][BenchNext /\ UNCHANGED <<regVars, xferVars, cmdlog, fsVars,
                   dtp, lifeVars>>]_vars

FlagNext == FsNext \/ Rewind

InitFs == RegIdle /\ XferInit /\ CmdInit /\ FsInit /\ BenchIdle
          /\ DtpIdle /\ LifeIdle

SpecFs ==
    /\ InitFs
    /\ [][FsNext /\ UNCHANGED <<regVars, xferVars, cmdlog, bench,
                   dtp, lifeVars>>]_vars

SpecFlag ==
    /\ InitFs
    /\ [][FlagNext /\ UNCHANGED <<regVars, xferVars, cmdlog, bench,
                   dtp, lifeVars>>]_vars

(***************************************************************************)
(* Claims about the session registry, checked under Spec.                  *)
(***************************************************************************)
Accepted(r) == [proto |-> r.proto, st |-> "open", shell |-> r.pending,
                pending |-> None]

Rejected(r) == [proto |-> r.proto, st |-> "rejected", shell |-> r.pending,
                pending |-> None]

\* The connections of r's front end, other than r, that are open and
\* authenticated as the user r is logging in as.
Others(r) == Authenticated(r.proto, r.pending)
                 - (IF r.shell = r.pending THEN 1 ELSE 0)

\* C1: with a cap N > 0, a login that succeeds as u on a live connection of a
\* front end, while N or more other connections of that front end are open and
\* authenticated as u, leaves that connection rejected: the too-many-connections
\* response sent and its transport closing.  FTP (pass_cb) and SFTP (on_auth).
C1_RejectedAtCap ==
    [][\A r \in BagToSet(conns) :
          ( /\ Counted(r)
            /\ r.st = "open"
            /\ maxConnectionsPerUser[r.proto] > 0
            /\ Others(r) >= maxConnectionsPerUser[r.proto] )
          => conns' = Replace(conns, r, Rejected(r))]_vars

C1_Witness ==
    \E r \in BagToSet(conns) :
        /\ r.st = "rejected"
        /\ maxConnectionsPerUser[r.proto] > 0
        /\ Active(r.proto, r.shell) = maxConnectionsPerUser[r.proto]

\* C2: with a cap N > 0, once N sessions of u were active and one of them
\* disconnected, the next new connection that logs in as u is accepted.
C2_FreedSlotAccepted ==
    [][\A r \in BagToSet(conns) :
          ( /\ Counted(r)
            /\ r.st = "open"
            /\ r.shell = None
            /\ freed = <<r.proto, r.pending>> )
          => conns' = Replace(conns, r, Accepted(r))]_vars

\* C3: every session counted at authentication is taken back exactly once by
\* the loss of its connection: when no connection and no login is left, every
\* count has returned to zero.
C3_EveryCountTakenBack ==
    conns = EmptyBag => \A p \in Protos : \A u \in Users :
                            MapGet(connCountMap[p], u) = 0

\* The sessions of u over both front ends.
TotalActive(u) == Active("ftp", u) + Active("sftp", u)

C5_NoZeroEntry ==
    \A p \in Protos : \A u \in DOMAIN connCountMap[p] : connCountMap[p][u] # 0

\* The last session of a user at the cap disconnected and the entry is gone.
C5_Witness ==
    /\ freed # NotFreed
    /\ freed[2] \notin DOMAIN connCountMap[freed[1]]

\* C6: with the cap set to 0 no connection is ever rejected for too many
\* connections, whatever the count of its user.
C6_UnlimitedNeverRejects ==
    \A r \in BagToSet(conns) :
        maxConnectionsPerUser[r.proto] = 0 => r.st # "rejected"

\* Cap 0 and every connection of the model a session of one user.
C6_Witness ==
    \E p \in Protos : \E u \in Users :
        /\ maxConnectionsPerUser[p] = 0
        /\ Active(p, u) = NConn
        /\ MapGet(connCountMap[p], u) >= NConn

(***************************************************************************)
(* Claims about transfers, checked under SpecXfer.                         *)
(***************************************************************************)
\* C7: the completion signal of a download succeeds only when the backend
\* body ended with the clean end-of-body signal (ResponseDone); any other end
\* of the body, a possibly truncated one included, makes it fail.
C7_SuccessOnlyOnCleanEnd ==
    /\ rd.finished = Ok => rd.ended = "ResponseDone"
    /\ (rd.ended # None /\ rd.ended # "ResponseDone") => rd.finished.s = "fail"

\* C8: the result handed to the protocol engine for a RETR (the deferred of
\* send) or a STOR (the value of close) is never a success unless the
\* completion signal of that transfer has fired with success.
C8_ResultAfterCompletion ==
    /\ rd.result = Ok => rd.finished = Ok
    /\ wr.result = Ok => wr.finished = Ok

\* Both results were handed out while the transfers were still running and
\* have since succeeded.
C8_Witness ==
    /\ rd.result = Ok /\ rd.waitsOn = "finished" /\ Len(rd.written) > 0
    /\ wr.result = Ok /\ wr.closed

ProtocolErrors == {"CmdNotImplementedForArgError", "SFTPError_FX_FAILURE"}

\* C10: in both front ends removeDirectory succeeds when the adapter fails
\* with NotFound, fails with a protocol error when the adapter fails with
\* Conflict, and fails with the adapter's own failure for every other one; a
\* Conflict never becomes a success.
C10_RemoveDirectoryMapping ==
    \A i \in 1 .. Len(cmdlog) :
        LET c == cmdlog[i]
        IN  c.op = "removeDirectory" =>
              /\ c.adapter = Ok => c.result = Ok
              /\ c.adapter = Fail("NotFound") => c.result = Ok
              /\ c.adapter = Fail("Conflict")
                    => (c.result.s = "fail" /\ c.result.why \in ProtocolErrors)
              /\ (c.adapter.s = "fail" /\ c.adapter.why \notin {"NotFound", "Conflict"})
                    => c.result = c.adapter

\* A session in which both front ends met a Conflict, or one met a Conflict
\* and then a NotFound.
C10_Witness ==
    /\ Len(cmdlog) >= 2
    /\ cmdlog[1].adapter = Fail("Conflict")
    /\ cmdlog[2].adapter \in {Fail("Conflict"), Fail("NotFound")}
    /\ cmdlog[1].fe # cmdlog[2].fe


(***************************************************************************)
(* Commands against the store (SpecFs).                                    *)
(***************************************************************************)
Did(op) == shellcmd.op = op

\* what the path of the command resolved to before the command
Was(path) == Resolve(shellcmd.before, Join(path))

HadChildren(path) == HasChildren(shellcmd.before, Join(path))

Parent(path) == SubSeq(path, 1, Len(path) - 1)

\* the path is an entry of the listing of its parent
ListedInParent(store, path) ==
    path[Len(path)] \in DOMAIN Listing(store, Join(Parent(path)))

Unsupported(fe) ==
    IF fe = "ftp" THEN Fail("CmdNotImplementedForArgError")
    ELSE Fail("NotImplementedError")

\* the error a front end gives for a file that is not there
NoSuchFile(fe) ==
    IF fe = "ftp" THEN Fail("FileNotFoundError")
    ELSE Fail("SFTPError_FX_NO_SUCH_FILE")

\* the errors by which a front end says that a path is a directory
IsADirectoryErrors == {"IsADirectoryError", "SFTPError_FX_FILE_IS_A_DIRECTORY"}

\* C13 as stated: in both front ends removeFile on a path that resolves to a
\* container or pseudo-directory removes nothing and is reported as the
\* protocol's is-a-directory error, never as NotFound and never as success.
C13_IsADirectoryInBothFrontEnds ==
    (Did("removeFile") /\ Was(shellcmd.path) \in {"container", "marker"})
        => /\ swift = shellcmd.before
           /\ shellcmd.result.s = "fail"
           /\ shellcmd.result.why \in IsADirectoryErrors

\* C13 amended: removeFile on a path that resolves to a container or
\* pseudo-directory removes nothing and is never reported as success nor as
\* not found; FTP reports IsADirectoryError, SFTP hands on the adapter's
\* NotImplementedError untranslated (an unsupported operation).
C13_DirectoryNeverRemovedAsFile ==
    (Did("removeFile") /\ Was(shellcmd.path) \in {"container", "marker"})
        => /\ swift = shellcmd.before
           /\ shellcmd.result =
                IF shellcmd.fe = "ftp" THEN Fail("IsADirectoryError")
                ELSE Fail("NotImplementedError")

C13_Witness ==
    /\ Did("removeFile")
    /\ shellcmd.fe = "ftp"
    /\ Was(shellcmd.path) = "marker"
    /\ shellcmd.result = Fail("IsADirectoryError")

\* C14: rename fails with the protocol's file-not-found error (FTP
\* FileNotFoundError, SFTP FX_NO_SUCH_FILE) whenever the source path does not
\* resolve, whether or not the destination exists.
C14_RenameMissingSource ==
    (Did("rename") /\ Was(shellcmd.path) = "absent")
        => /\ shellcmd.result = NoSuchFile(shellcmd.fe)
           /\ swift = shellcmd.before

C14_Witness ==
    /\ Did("rename")
    /\ shellcmd.fe = "ftp"
    /\ Was(shellcmd.path) = "absent"
    /\ Was(shellcmd.newpath) = "file"
    /\ shellcmd.result = Fail("FileNotFoundError")

\* C15: renaming a directory that has at least one child (a populated
\* container, a directory marker with a child, an implied directory) fails with
\* an unsupported-operation error and copies nothing: the store is as before,
\* and a destination name that did not exist still does not exist.
C15_RenamePopulatedDirectory ==
    (/\ Did("rename")
     /\ Was(shellcmd.path) \in {"container", "marker", "implied"}
     /\ HadChildren(shellcmd.path))
        => /\ shellcmd.result = Unsupported(shellcmd.fe)
           /\ swift = shellcmd.before
           /\ (Was(shellcmd.newpath) = "absent"
                 => Resolve(swift, Join(shellcmd.newpath)) = "absent")

C15_Witness ==
    /\ Did("rename")
    /\ shellcmd.fe = "sftp"
    /\ Was(shellcmd.path) = "marker"
    /\ HadChildren(shellcmd.path)
    /\ Was(shellcmd.newpath) = "absent"
    /\ shellcmd.result = Fail("NotImplementedError")

\* C16: for the root path, makeDirectory, removeDirectory, removeFile and
\* renameFile all fail with UnsupportedOperation and change nothing; the FTP
\* front end reports the rename of the root as a permanent error.
C16_RootIsNeverChanged ==
    (/\ shellcmd.op \in {"makeDirectory", "removeDirectory", "removeFile",
                         "rename"}
     /\ shellcmd.path = <<>>)
        => /\ shellcmd.adapter = Fail("NotImplementedError")
           /\ shellcmd.result.s = "fail"
           /\ swift = shellcmd.before
           /\ (shellcmd.fe = "ftp" /\ Did("rename")
                 => shellcmd.result = Fail("CmdNotImplementedForArgError"))

C16_Witness ==
    /\ Did("rename")
    /\ shellcmd.fe = "ftp"
    /\ shellcmd.path = <<>>
    /\ shellcmd.before.containers # {}
    /\ shellcmd.result = Fail("CmdNotImplementedForArgError")

ImmediateChild(store, path, name) ==
    /\ \A i \in 1..Len(name) : name[i] # Slash
    /\ name # <<>>
    /\ IF path = <<>> THEN name \in store.containers
       ELSE \E k \in DOMAIN store.objects :
               /\ k[1] = path[1]
               /\ \/ k[2] = Join(Tail(path) \o <<name>>)
                  \/ HasPrefix(Join(Tail(path) \o <<name>>), k[2])

\* C18: for every container or pseudo-directory path the listing returns each
\* immediate child name exactly once (an object, a directory marker and an
\* implied directory of one name are one entry) and never a descendant more
\* than one level below the listed path.
C18_ListingOneLevelNoDuplicates ==
    (/\ Did("list")
     /\ Was(shellcmd.path) \in {"container", "marker", "implied"})
        => /\ shellcmd.result.s = "ok"
           /\ LET l == shellcmd.result.v
              IN  /\ \A i, j \in 1..Len(l) : l[i][1] = l[j][1] => i = j
                  /\ \A i \in 1..Len(l) :
                        ImmediateChild(shellcmd.before, shellcmd.path, l[i][1])
                  /\ \A name \in SegNames :
                        ImmediateChild(shellcmd.before, shellcmd.path, name)
                            => \E i \in 1..Len(l) : l[i][1] = name

C18_Witness ==
    /\ Did("list")
    /\ Was(shellcmd.path) = "container"
    /\ \E k1, k2 \in DOMAIN shellcmd.before.objects :
          /\ k1[1] = shellcmd.path[1] /\ k2[1] = k1[1]
          /\ k1[2] = <<"a">>
          /\ k2[2] = <<"a", Slash, "b">>
    /\ shellcmd.result.s = "ok"
    /\ Len(shellcmd.result.v) = 1

\* C19: openForWriting on a path without a container name or without an
\* object name (the root, a single-segment path) fails as unsupported and
\* starts no backend upload.
C19_NoUploadToRoot ==
    (Did("openForWriting") /\ Len(shellcmd.path) <= 1)
        => /\ shellcmd.result = Fail("CmdNotImplementedForArgError")
           /\ shellcmd.adapter = NotMade
           /\ swift = shellcmd.before

C19_Witness ==
    /\ Did("openForWriting")
    /\ Len(shellcmd.path) = 1
    /\ Was(shellcmd.path) = "container"
    /\ shellcmd.result = Fail("CmdNotImplementedForArgError")

\* C20 as stated: with allow_no_existing_path enabled, access on a non-root
\* single-segment path that does not exist succeeds; with the mode disabled,
\* access on any path that does not exist fails.
C20_RelaxedForSingleSegment ==
    (Did("access") /\ Was(shellcmd.path) = "absent")
        => /\ (allow_no_existing_path /\ Len(shellcmd.path) = 1
                 => shellcmd.result = Ok)
           /\ (~allow_no_existing_path => shellcmd.result.s = "fail")

\* C20 amended: with allow_no_existing_path enabled, access on a path of two
\* or more segments that does not exist succeeds, and access on a
\* single-segment path (a container) that does not exist still fails; with
\* the mode disabled, access on any path that does not exist fails.
C20_RelaxedBelowContainers ==
    (Did("access") /\ Was(shellcmd.path) = "absent")
        => shellcmd.result =
             IF allow_no_existing_path /\ Len(shellcmd.path) # 1
             THEN Ok ELSE Fail("IsNotADirectoryError")

C20_Witness ==
    /\ Did("access")
    /\ allow_no_existing_path
    /\ Was(shellcmd.path) = "absent"
    /\ Len(shellcmd.path) >= 2
    /\ shellcmd.result = Ok

(***************************************************************************)
(* allow_no_existing_path                                                  *)
(***************************************************************************)
\* the operations of the shell other than access
OtherOperations ==
    {"makeDirectory", "openForWriting", "removeDirectory", "removeFile",
     "rename", "stat", "list", "openForReading"}

\* the command has been answered a second time, by a shell with the flag the
\* other way, on the store the first answer started from
AnsweredTwice ==
    /\ twin # NoTwin
    /\ shellcmd # NoCmd

\* C21: the allow-no-existing-path flag changes the outcome of access only:
\* every other operation, run on the same store with the flag on and with the
\* flag off, asks the same of the adapter, gives the same result and leaves
\* the same store.
C21_FlagChangesAccessOnly ==
    (AnsweredTwice /\ shellcmd.op \in OtherOperations) =>
        /\ shellcmd.before = twin.cmd.before
        /\ shellcmd.adapter = twin.cmd.adapter
        /\ shellcmd.result = twin.cmd.result
        /\ swift = twin.after

\* a makeDirectory below a container that does not exist, answered with the
\* flag off and then with the flag on
C21_Witness ==
    /\ AnsweredTwice
    /\ allow_no_existing_path
    /\ shellcmd.fe = "ftp"
    /\ Did("makeDirectory")
    /\ Len(shellcmd.path) = 2
    /\ shellcmd.adapter = Fail("NotFound")
    /\ shellcmd.result.s = "fail"

\* C22: with allow-no-existing-path off, access succeeds exactly when the path
\* resolves to something whose content type is the directory type (the root,
\* a container and a directory marker are such); a path that resolves to a
\* regular object and a path that does not resolve fail with
\* IsNotADirectoryError.
C22_AccessWithFlagOff ==
    (Did("access") /\ ~allow_no_existing_path) =>
        /\ shellcmd.result = Ok <=>
              /\ shellcmd.adapter.s = "ok"
              /\ shellcmd.adapter.v.content_type = "application/directory"
        /\ Was(shellcmd.path) \in {"root", "container", "marker"} =>
              shellcmd.result = Ok
        /\ Was(shellcmd.path) \in {"file", "absent"} =>
              shellcmd.result = Fail("IsNotADirectoryError")

\* access to a regular object, with the flag off
C22_Witness ==
    /\ Did("access")
    /\ ~allow_no_existing_path
    /\ Was(shellcmd.path) = "file"
    /\ shellcmd.result = Fail("IsNotADirectoryError")

\* C26: in the SFTP front end setAttrs is accepted and changes nothing, and
\* readLink, makeLink and extendedRequest signal NotImplementedError and
\* change nothing, whatever their arguments.
C26_SftpNoOps ==
    /\ Did("setAttrs") =>
          /\ shellcmd.result = Ok
          /\ swift = shellcmd.before
    /\ shellcmd.op \in {"readLink", "makeLink", "extendedRequest"} =>
          /\ shellcmd.result = Raised("NotImplementedError")
          /\ swift = shellcmd.before

\* readLink of an object that is there
C26_Witness ==
    /\ Did("readLink")
    /\ Was(shellcmd.path) = "file"
    /\ shellcmd.result = Raised("NotImplementedError")
    /\ NumObjects(swift) > 0

(***************************************************************************)
(* NotFound                                                                *)
(***************************************************************************)
Deletions == {"removeDirectory", "removeFile"}

\* C25: the front ends turn an adapter NotFound into success in two cases
\* only, a deletion and the existence probe (access); for every other
\* operation (stat, list, rename, makeDirectory, open for reading, open file,
\* open directory, getAttrs) a NotFound from the adapter ends the command in
\* an error and never in success.
C25_NotFoundAbsorbedTwice ==
    \A i \in DOMAIN cmdlog :
        cmdlog[i].adapter = Fail("NotFound") =>
            /\ cmdlog[i].result.s = "ok" =>
                  cmdlog[i].op \in Deletions \cup {"access"}
            /\ cmdlog[i].op \notin Deletions \cup {"access"} =>
                  cmdlog[i].result.s = "fail"

\* a probe that absorbed NotFound, then a listing that did not
C25_Witness ==
    /\ Len(cmdlog) = 2
    /\ cmdlog[1].op = "access"
    /\ cmdlog[1].adapter = Fail("NotFound")
    /\ cmdlog[1].result = Ok
    /\ cmdlog[2].op = "list"
    /\ cmdlog[2].adapter = Fail("NotFound")
    /\ cmdlog[2].result = Fail("FileNotFoundError")

(***************************************************************************)
(* SYST and LIST                                                           *)
(***************************************************************************)
\* C23: the system-type reply of the FTP front end is the line
\* "215 UNIX Type: I", whatever arguments the reply is given.
C23_SystemTypeReply ==
    (Did("reply") /\ shellcmd.path = <<"NAME_SYS_TYPE">>) =>
        shellcmd.result = OkWith("215 UNIX Type: I")

\* the flags the LIST command ignores
ListFlags == {<<"-", "a">>, <<"-", "l">>, <<"-", "l", "a">>, <<"-", "a", "l">>}

NotAFlag(token) == token \notin ListFlags

\* C24: the path LIST passes on to path resolution is the argument's
\* whitespace-separated tokens with every token equal to -a, -l, -la or -al
\* removed and all others kept in their order; an argument that holds no such
\* flag is passed on unchanged.
C24_ListFlagsStripped ==
    Did("LIST") =>
        /\ split(shellcmd.newpath) = SelectSeq(split(shellcmd.path), NotAFlag)
        /\ (\A i \in DOMAIN split(shellcmd.path) :
                NotAFlag(split(shellcmd.path)[i])) =>
              shellcmd.newpath = shellcmd.path

(***************************************************************************)
(* bench.py: stor and the pool                                             *)
(***************************************************************************)
\* the workers a step has moved
Moved == bench'.busy \ bench.busy

\* C27: an upload is counted as stored only when the total sent equals the
\* declared size exactly, and then no error is counted; an upload whose total
\* exceeds the declared size is never on the way to success, and when it
\* ends it has failed and is counted as an error, not as stored.
C27_StoredOnlyOnExactSize ==
    [][/\ bench'.stat.stor # bench.stat.stor =>
             \E g \in Moved : g.pc = "ok"
       /\ \A g \in Moved :
             /\ g.pc = "ok" =>
                   /\ g.total_sent = g.size
                   /\ bench'.stat.stor = bench.stat.stor + 1
                   /\ bench'.stat.errors = bench.stat.errors
             /\ g.total_sent > g.size => g.pc \in {"sending", "failed"}
             /\ g.pc = "failed" =>
                   /\ bench'.stat.errors = bench.stat.errors + 1
                   /\ bench'.stat.stor = bench.stat.stor]_vars

\* one upload was stored, another has sent more than its size and failed
C27_Witness ==
    /\ bench.stat.stor = 1
    /\ bench.stat.errors = 1
    /\ \E g \in bench.busy :
          /\ g.pc = "failed"
          /\ g.size > 0
          /\ g.total_sent > g.size

\* the workers that are gone from the busy set after a step
Left == {g \in bench.busy : \A h \in bench'.busy : h.ftp # g.ftp}

\* C28: when a unit of work ends, its connection goes back to the pool only
\* if the work succeeded; the connection of failed work is closed and is
\* never in the pool again; either way the worker leaves the busy set.
C28_ReleasedByOutcome ==
    [][/\ \A g \in Left :
             /\ g.pc \in {"ok", "failed"}
             /\ g.pc = "ok" => g.ftp \in bench'.pool
             /\ g.pc = "failed" =>
                   /\ g.ftp \notin bench'.pool
                   /\ ~IsNone(g.ftp) => g.ftp \in bench'.closed
       /\ \A g \in bench.busy :
             (g.ftp \in bench'.pool \/ g.ftp \in bench'.closed) => g \in Left
       /\ bench'.pool \cap bench'.closed = {}]_vars

\* a connection was closed after failed work, and later work on another
\* connection succeeded and gave it back
C28_Witness ==
    /\ bench.closed # {}
    /\ bench.pool # {}
    /\ bench.busy = {}
    /\ bench.stat.stor = 1

(***************************************************************************)
(* The registry under every interleaving                                   *)
(***************************************************************************)
\* C29: in every reachable state the registry count of every user equals the
\* number of connections that are open and authenticated as that user (no
\* entry counts as zero), also when a connection is lost while its
\* authentication is still in flight.
C29_CountIsOpenAuthenticated ==
    \A p \in Protos : \A u \in Users :
        MapGet(connCountMap[RegistryOf(p)], u) = Authenticated(p, u)

RECURSIVE SumCounts(_, _)
SumCounts(m, S) ==
    IF S = {} THEN 0
    ELSE LET u == CHOOSE x \in S : TRUE
         IN  MapGet(m, u) + SumCounts(m, S \ {u})

\* all the sessions the FTP registry counts
FtpCounted == SumCounts(connCountMap[RegistryOf("ftp")], Users)

\* C30: one FTP connection contributes at most 1 to the registry however
\* often it authenticates: a further successful login on a connection that
\* is already authenticated, as the same or as another user, adds nothing to
\* what the registry counts.
C30_OneCountPerConnection ==
    [][\A r \in BagToSet(conns) :
          (pass_cb(r) /\ r.st = "open" /\ r.shell # None) =>
              FtpCounted' = FtpCounted]_vars

\* C31: every entry of a registry holds a count of at least 1 in every state
\* between events: no count is negative, and every connection whose loss
\* decrements (it holds a shell or an avatar) finds an entry for its user.
C31_EntriesAtLeastOne ==
    /\ \A p \in Protos : \A u \in DOMAIN connCountMap[p] :
          connCountMap[p][u] >= 1
    /\ \A r \in BagToSet(conns) :
          (r.st \in {"open", "rejected"} /\ r.shell # None) =>
              r.shell \in DOMAIN connCountMap[RegistryOf(r.proto)]

\* of two sessions of one user at the cap one has been lost: the entry stays
C31_Witness ==
    /\ freed # NotFreed
    /\ maxConnectionsPerUser[freed[1]] = 2
    /\ MapGet(connCountMap[RegistryOf(freed[1])], freed[2]) = 1
    /\ Authenticated(freed[1], freed[2]) = 1

\* C32: a failed authentication and the loss of a connection that never
\* authenticated leave the registries unchanged: a registry changes only by
\* the increment of a successful authentication and by the decrement of the
\* loss of an authenticated connection.
C32_OnlyLoginAndLossCount ==
    [][/\ \A r \in BagToSet(conns) :
             /\ LoginFailed(r) => connCountMap' = connCountMap
             /\ (connectionLost(r) /\ r.shell = None) =>
                   connCountMap' = connCountMap
       /\ connCountMap' # connCountMap =>
             \E r \in BagToSet(conns) :
                 \/ /\ pass_cb(r) \/ on_auth(r)
                    /\ connCountMap'[RegistryOf(r.proto)] =
                          Increment(connCountMap[RegistryOf(r.proto)], r.pending)
                 \/ /\ connectionLost(r)
                    /\ r.shell # None
                    /\ connCountMap'[RegistryOf(r.proto)] =
                          Decrement(connCountMap[RegistryOf(r.proto)], r.shell)]_vars

\* a connection was lost with its login in flight, and the two sessions
\* counted before are still counted
C32_Witness ==
    /\ \E r \in BagToSet(conns) :
          r.st = "lost" /\ r.shell = None /\ r.pending # None
    /\ \E p \in Protos, u \in Users :
          MapGet(connCountMap[p], u) = 2 /\ Authenticated(p, u) = 2
    /\ BagCardinality(conns) = 3

\* C33: with a per-user maximum N > 0 a front end never has more than N
\* sessions of one user admitted (authenticated and not rejected), although
\* the count itself stands above N between a rejection and the loss of the
\* rejected connection.
C33_NeverMoreThanCapAdmitted ==
    \A p \in Protos : \A u \in Users :
        maxConnectionsPerUser[p] > 0 =>
            Active(p, u) <= maxConnectionsPerUser[p]

\* the cap is reached and a rejected connection is still counted above it
C33_Witness ==
    \E p \in Protos, u \in Users :
        /\ maxConnectionsPerUser[p] > 0
        /\ Active(p, u) = maxConnectionsPerUser[p]
        /\ MapGet(connCountMap[RegistryOf(p)], u) > maxConnectionsPerUser[p]

(***************************************************************************)
(* bench.py: the limit of the pool                                         *)
(***************************************************************************)
\* C37: in an FTPPool with max_ > 0 the number of workers busy at once never
\* exceeds max_, whatever the sequence of spawn_ftp calls and completions.
C37_BusyWithinMax ==
    bench.max_ > 0 => Cardinality(bench.busy) <= bench.max_

(***************************************************************************)
(* Download: the bytes on the wire                                         *)
(***************************************************************************)
\* C35: during a download every chunk received from the backend is written
\* to the consumer at once, unmodified and in arrival order, so what the
\* consumer has is always the concatenation of the chunks received so far;
\* the completion signal fires once, after the last chunk was written:
\* once fired it does not change and nothing more is received or written.
C35_WrittenIsReceived ==
    [][/\ rd'.written = rd'.received
       /\ rd.finished # Pending =>
             /\ rd'.finished = rd.finished
             /\ rd'.written = rd.written
             /\ rd'.received = rd.received
       /\ rd'.finished # rd.finished => rd.finished = Pending]_vars

\* two different chunks were received and written, then the body ended
C35_Witness ==
    /\ rd.received = <<"a", "b">>
    /\ rd.written = <<"a", "b">>
    /\ rd.finished = Ok

(***************************************************************************)
(* Claims about the data connection, checked under SpecLine.               *)
(***************************************************************************)
HadTransport == dtp.dtpInstance # None /\ dtp.transport # None

\* C36: cleanupDTP aborts the transport of the data connection exactly when
\* a data-connection instance with a transport existed as it began, and does
\* so after the base class's cleanup; with no instance or no transport it
\* runs the base cleanup only.  No socket is left open once it has run.
C36_AbortsTransportAfterBaseCleanup ==
    [][cleanupDTP =>
          /\ trace' = IF HadTransport
                      THEN <<"FTP.cleanupDTP", "abortConnection">>
                      ELSE <<"FTP.cleanupDTP">>
          /\ dtp'.dtpInstance = None
          /\ dtp'.socket # "open"
          /\ ~HadTransport => dtp'.socket = dtp.socket]_vars

C36_Witness ==
    /\ trace = <<"FTP.cleanupDTP", "abortConnection">>
    /\ dtp.socket = "aborted"
    /\ dtp.dtpInstance = None

(***************************************************************************)
(* Claims about the end of a session, checked under SpecLife.              *)
(***************************************************************************)
Held == Cardinality({r \in BagToSet(conns) : r.shell # None})

\* C34: when an authenticated connection is lost the registry is
\* decremented before the session is logged out; a connection that did not
\* authenticate is not logged out, no other handler logs out, and every
\* session a login made is logged out once: the sessions not logged out yet
\* are held by connections that are still to be lost.
C34_LogoutOncePerAuthenticated ==
    /\ [](sessions = Held)
    /\ [][/\ \A r \in BagToSet(conns) :
                LostAndLoggedOut(r) =>
                    trace' = IF r.shell # None
                             THEN <<"decrement", "logout">>
                             ELSE <<>>
          /\ (\A r \in BagToSet(conns) : ~LostAndLoggedOut(r)) =>
                 \A i \in DOMAIN trace' : trace'[i] # "logout"]_vars

====
